---- MODULE Spec2Model ----
(***************************************************************************)
(* Branch-synchronization orchestrator of weblate-action.                  *)
(*                                                                         *)
(* src/src/index.ts holds the three mode handlers (syncMaster,             *)
(* validatePullRequest, removeBranch); src/src/utils.ts holds the resource *)
(* discovery (resolveComponents).  The platform client (lib/weblate) and   *)
(* the helpers of lib/logic are not part of src/: their effect on the      *)
(* platform state is modelled from the specification's interface contract  *)
(* (spec.md sections 3, 4.2-4.4, 6).                                       *)
(*                                                                         *)
(* Strings are sequences of one-character strings, so that concatenation   *)
(* (template literals, path.join) is computed and not assumed injective.   *)
(***************************************************************************)
EXTENDS Integers, Sequences, FiniteSets, TLC

VARIABLES
    cats,       \* platform: names of the categories that exist
    comps,      \* platform: category name -> sequence of its components
    tasks,      \* platform: <<category, component>> pairs with a running task
    pc,         \* position of the running handler ("idle" between runs)
    config,     \* configuration of the running invocation
    loc,        \* local variables of the running handler
    pending,    \* createComponent calls issued and not yet completed
    events,     \* setFailed / PR comment / warning calls of this invocation
    hist,       \* history: summary of the last finished invocation
    snap,       \* history: platform state when the invocation started
    fs          \* the work tree as resolveComponents read it: the entries of the keysets directory

vars == <<cats, comps, tasks, pc, config, loc, pending, events, hist, snap, fs>>

\* ------------------------------------------------------------------ bounds

\* Pull requests are numbered 1..MaxPR.
MaxPR == 2

PRs == 1..MaxPR

\* A glob pattern matches at most MaxDirs directories.
MaxDirs == 2

\* ----------------------------------------------------------------- strings

EmptyStr == <<>>

Sep == <<"_", "_">>

Slash == <<"/">>

DigitChars == <<"0", "1", "2", "3", "4", "5", "6", "7", "8", "9">>

RECURSIVE ToStr(_)
\* String(n) for a natural number, as a template literal renders it.
ToStr(n) ==
    IF n < 10 THEN <<DigitChars[n + 1]>>
    ELSE ToStr(n \div 10) \o <<DigitChars[(n % 10) + 1]>>

RECURSIVE Split(_, _)
\* str.split(sep) for a one-character separator.
Split(str, sep) ==
    IF \A i \in 1..Len(str) : str[i] # sep THEN <<str>>
    ELSE LET k == CHOOSE i \in 1..Len(str) :
                    str[i] = sep /\ \A j \in 1..(i - 1) : str[j] # sep
         IN <<SubSeq(str, 1, k - 1)>> \o Split(SubSeq(str, k + 1, Len(str)), sep)

Dot == <<".">>

DotDot == <<".", ".">>

RECURSIVE JoinSegments(_)
\* The segments joined with '/'.
JoinSegments(parts) ==
    IF parts = <<>> THEN <<>>
    ELSE IF Len(parts) = 1 THEN parts[1]
    ELSE parts[1] \o Slash \o JoinSegments(Tail(parts))

RECURSIVE NormalizeSegments(_, _, _)
\* The segments path.normalize keeps: empty and '.' segments are dropped, a
\* '..' removes the segment before it, and is kept only where a relative path
\* has nothing left to remove.
NormalizeSegments(parts, kept, allowAboveRoot) ==
    IF parts = <<>> THEN kept
    ELSE LET seg == Head(parts)
         IN IF seg = <<>> \/ seg = Dot
            THEN NormalizeSegments(Tail(parts), kept, allowAboveRoot)
            ELSE IF seg = DotDot
            THEN IF kept # <<>> /\ kept[Len(kept)] # DotDot
                 THEN NormalizeSegments(Tail(parts), SubSeq(kept, 1, Len(kept) - 1),
                                        allowAboveRoot)
                 ELSE IF allowAboveRoot
                 THEN NormalizeSegments(Tail(parts), Append(kept, seg), allowAboveRoot)
                 ELSE NormalizeSegments(Tail(parts), kept, allowAboveRoot)
            ELSE NormalizeSegments(Tail(parts), Append(kept, seg), allowAboveRoot)

\* path.normalize of a POSIX path.
PathNormalize(path) ==
    IF path = <<>> THEN Dot
    ELSE LET isAbsolute == path[1] = "/"
             trailingSeparator == path[Len(path)] = "/"
             body == JoinSegments(NormalizeSegments(Split(path, "/"), <<>>, ~isAbsolute))
         IN IF body = <<>>
            THEN IF isAbsolute THEN Slash
                 ELSE IF trailingSeparator THEN Dot \o Slash ELSE Dot
            ELSE (IF isAbsolute THEN Slash ELSE <<>>) \o body
                 \o (IF trailingSeparator THEN Slash ELSE <<>>)

\* path.join(a, b, c): the non-empty arguments joined with '/', normalised.
PathJoin3(a, b, c) ==
    LET joined == JoinSegments(SelectSeq(<<a, b, c>>, LAMBDA x : x # <<>>))
    IN IF joined = <<>> THEN Dot ELSE PathNormalize(joined)

NeverHidden(name) == FALSE

\* dirent.name.startsWith('.')
startsWithDot(name) == Len(name) > 0 /\ name[1] = "."

\* ----------------------------------------------------------- configuration

MasterBranch == <<"m">>

FeatureBranch == <<"f">>

KeysetsPath == <<"k">>

MainLanguage == <<"e", "n">>

Modes == {"SYNC_MASTER", "VALIDATE_PULL_REQUEST", "REMOVE_BRANCH"}

NoConfig == [mode |-> "none", branchName |-> EmptyStr, masterBranch |-> EmptyStr,
             pullRequestNumber |-> 0]

Configs ==
    {[mode |-> "SYNC_MASTER", branchName |-> MasterBranch,
      masterBranch |-> MasterBranch, pullRequestNumber |-> 0]}
    \cup {[mode |-> m, branchName |-> FeatureBranch,
           masterBranch |-> MasterBranch, pullRequestNumber |-> n] :
            m \in {"VALIDATE_PULL_REQUEST", "REMOVE_BRANCH"}, n \in PRs}

\* `${config.branchName}__${config.pullRequestNumber}`
PRCategoryName(cfg) == cfg.branchName \o Sep \o ToStr(cfg.pullRequestNumber)

ComponentNameNoSuffix(name, cfg) == name

\* `${component.name}__${config.pullRequestNumber}`
PRComponentName(name, cfg) == name \o Sep \o ToStr(cfg.pullRequestNumber)

CatNames == {MasterBranch} \cup {PRCategoryName(c) : c \in Configs \ {c \in Configs : c.mode = "SYNC_MASTER"}}

\* --------------------------------------------------------------- discovery

\* Directory listings the work tree may hold at keysetsPath (fs.readdir with
\* withFileTypes), in name order: directories, a hidden directory and a plain
\* file.
Dirent(n, d) == [name |-> n, isDir |-> d]

Listings ==
    { <<>>,
      <<Dirent(<<"b">>, TRUE)>>,
      <<Dirent(<<".", "h">>, TRUE), Dirent(<<"a">>, TRUE),
        Dirent(<<"b">>, TRUE), Dirent(<<"r">>, FALSE)>> }

isGlobPattern(keysetsPath) ==
    \E i \in 1..Len(keysetsPath) : keysetsPath[i] \in {"*", "?", "["}

RECURSIVE FilterMapDirect(_, _, _)
\* dirents.filter(isDirectory && !startsWith('.')).map(...) of the direct path.
FilterMapDirect(keysetsPath, mainLanguage, dirents) ==
    IF dirents = <<>> THEN <<>>
    ELSE LET d == Head(dirents)
             rest == FilterMapDirect(keysetsPath, mainLanguage, Tail(dirents))
         IN IF d.isDir /\ ~startsWithDot(d.name)
            THEN <<[name |-> d.name,
                    source |-> PathJoin3(keysetsPath, d.name,
                                         mainLanguage \o <<".", "j", "s", "o", "n">>),
                    fileMask |-> PathJoin3(keysetsPath, d.name,
                                           <<"*", ".", "j", "s", "o", "n">>)]>> \o rest
            ELSE rest

\* resolveComponents for a path without glob metacharacters.
resolveComponentsDirect(keysetsPath, mainLanguage, dirents) ==
    FilterMapDirect(keysetsPath, mainLanguage, dirents)

ProjectsStr == <<"p", "r", "o", "j", "e", "c", "t", "s">>

Underscore == <<"_">>

\* Array.prototype.indexOf: the zero-based index of the first occurrence, -1
\* when there is none.
indexOf(parts, x) ==
    IF \E i \in 1..Len(parts) : parts[i] = x
    THEN (CHOOSE i \in 1..Len(parts) :
              parts[i] = x /\ \A j \in 1..(i - 1) : parts[j] # x) - 1
    ELSE -1

\* path.dirname of a POSIX path: the trailing separators are skipped, then the
\* last segment and the separator before it are dropped; '.' when no
\* separator is left, '/' for a child of the root.
dirname(p) ==
    IF Len(p) = 0 THEN <<".">>
    ELSE LET hasRoot == p[1] = "/"
             named == {i \in 2..Len(p) : p[i] # "/"}
             last == CHOOSE i \in named : \A j \in named : j <= i
             seps == IF named = {} THEN {}
                     ELSE {i \in 2..(last - 1) : p[i] = "/"}
             end == CHOOSE i \in seps : \A j \in seps : j <= i
         IN IF seps = {} THEN (IF hasRoot THEN <<"/">> ELSE <<".">>)
            ELSE IF hasRoot /\ end = 2 THEN <<"/", "/">>
            ELSE SubSeq(p, 1, end - 1)

\* path.basename of a POSIX path: the last segment before the trailing
\* separators, '' when the path holds separators only.
basename(p) ==
    LET named == {i \in 1..Len(p) : p[i] # "/"}
        last == CHOOSE i \in named : \A j \in named : j <= i
        seps == {i \in 1..(last - 1) : p[i] = "/"}
        start == IF seps = {} THEN 1
                 ELSE (CHOOSE i \in seps : \A j \in seps : j <= i) + 1
    IN IF named = {} THEN <<>> ELSE SubSeq(p, start, last)

\* path.basename(path.dirname(dir))
BasenameOfDirname(dir) == basename(dirname(dir))

ParentOnly(dir) == BasenameOfDirname(dir)

\* parentDirName: the segment after the first 'projects' segment when it has
\* one, else pathParts[length - 2] || path.basename(path.dirname(dir)).
parentDirName(dir) ==
    LET pathParts == Split(dir, "/")
        projectsIndex == indexOf(pathParts, ProjectsStr)
    IN IF projectsIndex # -1 /\ projectsIndex + 1 < Len(pathParts)
       THEN pathParts[projectsIndex + 2]
       ELSE IF Len(pathParts) >= 2 /\ pathParts[Len(pathParts) - 1] # <<>>
            THEN pathParts[Len(pathParts) - 1]
            ELSE BasenameOfDirname(dir)

RECURSIVE FilterMapGlob(_, _, _)
\* dirents.filter(isDirectory && !startsWith('.')).map(...) of one matched
\* directory.
FilterMapGlob(dir, mainLanguage, dirents) ==
    IF dirents = <<>> THEN <<>>
    ELSE LET d == Head(dirents)
             rest == FilterMapGlob(dir, mainLanguage, Tail(dirents))
         IN IF d.isDir /\ ~startsWithDot(d.name)
            THEN <<[name |-> parentDirName(dir) \o Underscore \o d.name,
                    source |-> PathJoin3(dir, d.name,
                                         mainLanguage \o <<".", "j", "s", "o", "n">>),
                    fileMask |-> PathJoin3(dir, d.name,
                                           <<"*", ".", "j", "s", "o", "n">>)]>> \o rest
            ELSE rest

\* The outcome of fs.readdir on one directory.
ReadOk(dirents) == [ok |-> TRUE, dirents |-> dirents]

ReadFailed == [ok |-> FALSE, dirents |-> <<>>]

GlobIterationDropping(components, m, mainLanguage) ==
    IF m.read.ok
    THEN components \o FilterMapGlob(m.dir, mainLanguage, m.read.dirents)
    ELSE <<>>

\* One iteration of for (const dir of matchedDirs): try { readdir; map;
\* components.push(...dirComponents) } catch { console.warn }.
GlobIteration(components, m, mainLanguage) ==
    IF m.read.ok
    THEN components \o FilterMapGlob(m.dir, mainLanguage, m.read.dirents)
    ELSE components

\* ---------------------------------------------------------------- platform

GitRepo == [kind |-> "git", cat |-> EmptyStr, comp |-> EmptyStr]

\* `weblate://${project}/${categorySlug}/${componentSlug}`
LinkRepo(categorySlug, componentSlug) ==
    [kind |-> "link", cat |-> categorySlug, comp |-> componentSlug]

NoComponent == [name |-> EmptyStr, repo |-> GitRepo, filemask |-> EmptyStr,
                template |-> EmptyStr, pr |-> 0]

\* linked_component of a platform component: absent for the component that
\* owns the VCS binding.
HasLinkedComponent(c) == c.repo.kind = "link"

NameSet(seq) == {seq[i].name : i \in 1..Len(seq)}

IndexOfName(seq, name) ==
    IF name \in NameSet(seq)
    THEN CHOOSE i \in 1..Len(seq) : seq[i].name = name
    ELSE 0

\* getComponentsInCategory
getComponentsInCategory(cat) == comps[cat]

\* findCategoryForBranch: the category's name, or EmptyStr when absent.
findCategoryForBranch(name) == IF name \in cats THEN name ELSE EmptyStr

\* Candidates of getMainComponentInCategory: the components of the category
\* without linked_component.
MainCandidates(cat) ==
    {comps[cat][i] : i \in {j \in 1..Len(comps[cat]) : ~HasLinkedComponent(comps[cat][j])}}

\* createComponent on the platform state: a new name is appended and its task
\* starts; an existing name is updated only with updateIfExist.
ComponentOfCall(call) ==
    [name |-> call.name, repo |-> call.repo, filemask |-> call.fileMask,
     template |-> call.source, pr |-> call.pr]

CompsAfterCreate(seq, call) ==
    LET i == IndexOfName(seq, call.name)
    IN IF i = 0 THEN Append(seq, ComponentOfCall(call))
       ELSE IF call.updateIfExist
            THEN [seq EXCEPT ![i] = ComponentOfCall(call)]
            ELSE seq

TasksAfterCreate(seq, cat, call) ==
    IF IndexOfName(seq, call.name) = 0 \/ call.updateIfExist
    THEN tasks \cup {<<cat, call.name>>}
    ELSE tasks

\* waitComponentsTasks resolves when no named component has a running task.
TasksIdle(cat, names) == \A n \in names : <<cat, n>> \notin tasks

RECURSIVE SelectComponents(_, _)
SelectComponents(seq, keep) ==
    IF seq = <<>> THEN <<>>
    ELSE IF Head(seq).name \in keep
         THEN <<Head(seq)>> \o SelectComponents(Tail(seq), keep)
         ELSE SelectComponents(Tail(seq), keep)

\* The name a discovered group carries on the platform: suffixed with the
\* pull-request number in PR mode.
PlatformNameOf(name, cfg) ==
    IF cfg.pullRequestNumber = 0 THEN name ELSE PRComponentName(name, cfg)

\* removeMissingComponents: deletes every component of the category whose name
\* is not backed by a discovered group.
CompsAfterRemoveMissing(seq, cfg, componentsInCode) ==
    SelectComponents(seq, {PlatformNameOf(componentsInCode[i].name, cfg) :
                            i \in 1..Len(componentsInCode)})

\* ---------------------------------------------------------------- handlers

NoErrors == [mergeFailureError |-> FALSE, needsCommitError |-> FALSE,
             needsPushError |-> FALSE]

RepoErrors(merge, commit, push) ==
    [mergeFailureError |-> merge, needsCommitError |-> commit, needsPushError |-> push]

\* Results of getComponentRepositoryErrors: no condition, each condition
\* alone, and the combinations that tell the order of the checks apart
\* (needsCommit with needsPush, and all three).
RepositoryErrorValues ==
    {NoErrors, RepoErrors(TRUE, FALSE, FALSE), RepoErrors(FALSE, TRUE, FALSE),
     RepoErrors(FALSE, FALSE, TRUE), RepoErrors(FALSE, TRUE, TRUE),
     RepoErrors(TRUE, TRUE, TRUE)}

NoLoc ==
    [categorySlug |-> EmptyStr, wasRecentlyCreated |-> FALSE,
     masterCategory |-> EmptyStr, pulled |-> FALSE, pullFailed |-> FALSE,
     componentsInCode |-> <<>>, resolved |-> FALSE,
     first |-> EmptyStr, main |-> EmptyStr, created |-> {}, issued |-> {},
     barrier |-> "none", barrierNames |-> {}, removedAny |-> FALSE,
     cloned |-> FALSE, reconciled |-> FALSE, removed |-> FALSE, classified |-> FALSE,
     errs |-> NoErrors, untranslated |-> FALSE, removeCalls |-> <<>>,
     mainBefore |-> {}, untranslatedChecked |-> FALSE, clonesAwaited |-> {},
     pulledFirst |-> FALSE, message |-> "none"]

NoHist == [mode |-> "none", code |-> <<>>, target |-> EmptyStr]

NoSnap == [prev |-> NoHist, cats |-> {}, comps |-> <<>>]

Init ==
    /\ cats = {}
    /\ comps = [c \in CatNames |-> <<>>]
    /\ tasks = {}
    /\ pc = "idle"
    /\ config = NoConfig
    /\ loc = NoLoc
    /\ pending = {}
    /\ events = <<>>
    /\ hist = NoHist
    /\ snap = NoSnap
    /\ fs = <<>>

\* One entry of the invocation's log of user-visible calls.
Event(kind, reason) == [kind |-> kind, reason |-> reason]

SetFailedDropped(ev, reason) == ev

\* setFailed(message)
SetFailed(ev, reason) == Append(ev, Event("setFailed", reason))

\* console.warn(message)
Warn(ev, reason) == Append(ev, Event("warn", reason))

CrashSwallowed(ev, reason) == ev

\* An uncaught exception ends the invocation.
Crash(ev, reason) == Append(ev, Event("crash", reason))

\* octokit.rest.issues.createComment(...) has posted the comment.
Comment(ev, reason) == Append(ev, Event("comment", reason))

Failed == \E i \in 1..Len(events) : events[i].kind = "setFailed"

Crashed == \E i \in 1..Len(events) : events[i].kind = "crash"

\* The arguments of one createComponent call; origin is the name the call's
\* name was derived from (a discovered group or a trunk component).
Call(kind, cat, origin, name, fileMask, source, repo, upd, pr) ==
    [kind |-> kind, cat |-> cat, origin |-> origin, name |-> name,
     fileMask |-> fileMask, source |-> source, repo |-> repo,
     updateIfExist |-> upd, pr |-> pr]

\* What the invocation's log keeps of a createComponent call it issued.
Issued(call) ==
    [kind |-> call.kind, cat |-> call.cat, origin |-> call.origin, name |-> call.name]

StartWith(configs) ==
    /\ pc = "idle"
    /\ \E cfg \in configs :
        /\ config' = cfg
        /\ pc' = CASE cfg.mode = "SYNC_MASTER" -> "sm_category"
                   [] cfg.mode = "VALIDATE_PULL_REQUEST" -> "vp_category"
                   [] OTHER -> "rb_find"
        /\ snap' = IF cfg.mode = "REMOVE_BRANCH" \/ cfg.mode = hist.mode
                   THEN [prev |-> IF cfg.mode = hist.mode THEN hist ELSE NoHist,
                         cats |-> cats, comps |-> comps]
                   ELSE NoSnap
    /\ hist' = NoHist
    /\ UNCHANGED <<cats, comps, tasks, loc, pending, events, fs>>

Start == StartWith(Configs)

\* A createComponent call in flight completes on the platform.
CompleteCreate ==
    \E call \in pending :
        /\ comps' = [comps EXCEPT ![call.cat] = CompsAfterCreate(@, call)]
        /\ tasks' = TasksAfterCreate(comps[call.cat], call.cat, call)
        /\ pending' = pending \ {call}
        /\ loc' = [loc EXCEPT !.created = @ \cup {call.name}]
        /\ UNCHANGED <<cats, pc, config, events, hist, snap, fs>>

\* A background task of the platform reaches a terminal state.
TaskDone ==
    \E t \in tasks :
        /\ tasks' = tasks \ {t}
        /\ UNCHANGED <<cats, comps, pc, config, loc, pending, events, hist, snap, fs>>

\* ------------------------------------------------------------- syncMaster

PullFailedInverted(mergeFailureMessage) == ~mergeFailureMessage

\* if (mergeFailureMessage)
PullFailed(mergeFailureMessage) == mergeFailureMessage

CreatesNotAwaited == TRUE

FirstNotAwaited == TRUE

\* const firstWeblateComponent = await weblate.createComponent({...})
FirstAwaited == pending = {}

SyncShouldPullInverted(wasRecentlyCreated) == wasRecentlyCreated

\* if (!categoryWasRecentlyCreated)
SyncShouldPull(wasRecentlyCreated) == ~wasRecentlyCreated

\* await Promise.all(createComponentsPromises)
CreatesJoined == pending = {}

RemovalInputOthers(componentsInCode) == Tail(componentsInCode)

\* componentsInCode, as passed to removeMissingComponents
RemovalInput(componentsInCode) == componentsInCode

SM_Category ==
    /\ pc = "sm_category"
    /\ LET name == config.branchName
           was == name \notin cats
       IN /\ cats' = cats \cup {name}
          /\ loc' = [NoLoc EXCEPT !.categorySlug = name, !.wasRecentlyCreated = was]
          /\ pc' = IF SyncShouldPull(was) THEN "sm_pull" ELSE "sm_resolve"
    /\ UNCHANGED <<comps, tasks, config, pending, events, hist, snap, fs>>

SM_Pull ==
    /\ pc = "sm_pull"
    /\ \E mergeFailureMessage \in BOOLEAN :
        /\ loc' = [loc EXCEPT !.pulled = TRUE, !.pullFailed = mergeFailureMessage]
        /\ IF PullFailed(mergeFailureMessage)
           THEN events' = SetFailed(events, "pullMergeFailure") /\ pc' = "done"
           ELSE events' = events /\ pc' = "sm_resolve"
    /\ UNCHANGED <<cats, comps, tasks, config, pending, hist, snap, fs>>

SM_ResolveIn(listings) ==
    /\ pc = "sm_resolve"
    /\ \E dirents \in listings :
        /\ fs' = dirents
        /\ loc' = [loc EXCEPT !.componentsInCode =
                                  resolveComponentsDirect(KeysetsPath, MainLanguage,
                                                          dirents),
                              !.resolved = TRUE]
    /\ pc' = "sm_first"
    /\ UNCHANGED <<cats, comps, tasks, config, pending, events, hist, snap>>

SM_Resolve == SM_ResolveIn(Listings)

SyncFirstCall(firstComponent) ==
    Call("first", loc.categorySlug, firstComponent.name, firstComponent.name,
         firstComponent.fileMask, firstComponent.source, GitRepo, FALSE, 0)

SyncRestCall(component) ==
    Call("rest", loc.categorySlug, component.name, component.name,
         component.fileMask, component.source,
         LinkRepo(loc.categorySlug, loc.main), FALSE, 0)

SM_First ==
    /\ pc = "sm_first"
    /\ IF loc.componentsInCode = <<>>
       THEN \* firstComponent is undefined: reading firstComponent.name throws
            /\ events' = Crash(events, "firstComponentUndefined")
            /\ pc' = "done"
            /\ UNCHANGED <<pending, loc>>
       ELSE /\ pending' = pending \cup {SyncFirstCall(Head(loc.componentsInCode))}
            /\ loc' = [loc EXCEPT !.issued = @ \cup {Issued(SyncFirstCall(Head(loc.componentsInCode)))}]
            /\ pc' = "sm_firstDone"
            /\ events' = events
    /\ UNCHANGED <<cats, comps, tasks, config, hist, snap, fs>>

SM_FirstDone ==
    /\ pc = "sm_firstDone"
    /\ FirstAwaited
    /\ loc' = [loc EXCEPT !.first = Head(loc.componentsInCode).name]
    /\ pc' = "sm_main"
    /\ UNCHANGED <<cats, comps, tasks, config, pending, events, hist, snap, fs>>

SM_Main ==
    /\ pc = "sm_main"
    /\ \E m \in (IF MainCandidates(loc.categorySlug) = {} THEN {loc.first}
                 ELSE {c.name : c \in MainCandidates(loc.categorySlug)}) :
        loc' = [loc EXCEPT !.main = m]
    /\ pc' = "sm_rest"
    /\ UNCHANGED <<cats, comps, tasks, config, pending, events, hist, snap, fs>>

SM_Rest ==
    /\ pc = "sm_rest"
    /\ LET calls == {SyncRestCall(loc.componentsInCode[i]) :
                        i \in 2..Len(loc.componentsInCode)}
       IN /\ pending' = pending \cup calls
          /\ loc' = [loc EXCEPT !.issued = @ \cup {Issued(c) : c \in calls}]
    /\ pc' = "sm_join"
    /\ UNCHANGED <<cats, comps, tasks, config, events, hist, snap, fs>>

SM_Join ==
    /\ pc = "sm_join"
    /\ CreatesJoined
    /\ loc' = [loc EXCEPT !.reconciled = TRUE]
    /\ pc' = "sm_barrier"
    /\ UNCHANGED <<cats, comps, tasks, config, pending, events, hist, snap, fs>>

\* componentNames: allWeblateComponents.map(({name}) => name)
SyncBarrierNames == NameSet(getComponentsInCategory(loc.categorySlug))

SM_Barrier ==
    /\ pc = "sm_barrier"
    /\ loc' = [loc EXCEPT !.barrier = "waiting",
                          !.barrierNames = SyncBarrierNames]
    /\ pc' = "sm_wait"
    /\ UNCHANGED <<cats, comps, tasks, config, pending, events, hist, snap, fs>>

SM_Wait ==
    /\ pc = "sm_wait"
    /\ TasksIdle(loc.categorySlug, loc.barrierNames)
    /\ loc' = [loc EXCEPT !.barrier = "resolved"]
    /\ pc' = "sm_remove"
    /\ UNCHANGED <<cats, comps, tasks, config, pending, events, hist, snap, fs>>

\* await removeMissingComponents({..., componentsInCode}); removedAny records
\* whether it deleted a component.
SM_Remove ==
    /\ pc = "sm_remove"
    /\ LET cat == loc.categorySlug
           after == CompsAfterRemoveMissing(comps[cat], config,
                                            RemovalInput(loc.componentsInCode))
       IN /\ comps' = [comps EXCEPT ![cat] = after]
          /\ tasks' = {t \in tasks : t[1] # cat \/ t[2] \in NameSet(after)}
          /\ loc' = [loc EXCEPT !.removed = TRUE, !.removedAny = after # comps[cat]]
    /\ pc' = "sm_classify"
    /\ UNCHANGED <<cats, config, pending, events, hist, snap, fs>>

SyncHealthNoReturn(ev, errs) ==
    LET e0 == IF errs.mergeFailureError THEN SetFailed(ev, "mergeFailureError") ELSE ev
        e1 == IF errs.needsCommitError THEN Warn(e0, "needsCommitError") ELSE e0
    IN IF errs.needsPushError THEN SetFailed(e1, "needsPushError") ELSE e1

\* The three checks on repositoryErrors that end syncMaster: merge failure is
\* fatal and returns, uncommitted changes are a warning, unpushed commits are
\* fatal.
SyncHealth(ev, errs) ==
    IF errs.mergeFailureError THEN SetFailed(ev, "mergeFailureError")
    ELSE LET e1 == IF errs.needsCommitError THEN Warn(ev, "needsCommitError") ELSE ev
         IN IF errs.needsPushError THEN SetFailed(e1, "needsPushError") ELSE e1

SM_Classify ==
    /\ pc = "sm_classify"
    /\ \E e \in RepositoryErrorValues :
        /\ loc' = [loc EXCEPT !.errs = e, !.classified = TRUE]
        /\ events' = SyncHealth(events, e)
    /\ pc' = "done"
    /\ UNCHANGED <<cats, comps, tasks, config, pending, hist, snap, fs>>

syncMaster ==
    \/ SM_Category \/ SM_Pull \/ SM_Resolve \/ SM_First \/ SM_FirstDone
    \/ SM_Main \/ SM_Rest \/ SM_Join \/ SM_Barrier \/ SM_Wait \/ SM_Remove
    \/ SM_Classify

\* ---------------------------------------------------- validatePullRequest

FirstMasterComponent(masterComponents) ==
    IF masterComponents # <<>> THEN masterComponents[1] ELSE NoComponent

\* masterComponents.find(({linked_component}) => !linked_component) || masterComponents[0]
mainMasterComponent(masterComponents) ==
    LET unlinked == {i \in 1..Len(masterComponents) :
                        ~HasLinkedComponent(masterComponents[i])}
    IN IF unlinked # {}
       THEN masterComponents[CHOOSE i \in unlinked : \A j \in unlinked : i <= j]
       ELSE IF masterComponents # <<>> THEN masterComponents[1] ELSE NoComponent

\* updateIfExist: categoryWasRecentlyCreated
PRUpdateIfExist(wasRecentlyCreated) == wasRecentlyCreated

PRCloneCall(component, masterCategory, masterComponents) ==
    Call("clone", loc.categorySlug, component.name,
         PRComponentName(component.name, config),
         component.filemask, component.template,
         LinkRepo(masterCategory, mainMasterComponent(masterComponents).name),
         FALSE, config.pullRequestNumber)

PRFirstCall(firstComponent) ==
    Call("first", loc.categorySlug, firstComponent.name,
         PRComponentName(firstComponent.name, config),
         firstComponent.fileMask, firstComponent.source, GitRepo,
         PRUpdateIfExist(loc.wasRecentlyCreated), config.pullRequestNumber)

PRRestCall(component) ==
    Call("rest", loc.categorySlug, component.name,
         PRComponentName(component.name, config),
         component.fileMask, component.source,
         LinkRepo(loc.categorySlug, loc.first),
         PRUpdateIfExist(loc.wasRecentlyCreated), config.pullRequestNumber)

PRBootstrapAlways(wasRecentlyCreated) == TRUE

\* if (categoryWasRecentlyCreated) { copy components from master branch } else { pull }
PRShouldBootstrap(wasRecentlyCreated) == wasRecentlyCreated

VP_Category ==
    /\ pc = "vp_category"
    /\ LET name == PRCategoryName(config)
           was == name \notin cats
       IN /\ cats' = cats \cup {name}
          /\ loc' = [NoLoc EXCEPT !.categorySlug = name, !.wasRecentlyCreated = was,
                                   !.mainBefore = {c.name : c \in MainCandidates(name)}]
          /\ pc' = IF PRShouldBootstrap(was) THEN "vp_findMaster" ELSE "vp_pull"
    /\ UNCHANGED <<comps, tasks, config, pending, events, hist, snap, fs>>

MasterCategoryGuardInverted(masterCategory) == masterCategory # EmptyStr

\* if (!masterCategory)
MasterCategoryNotFound(masterCategory) == masterCategory = EmptyStr

VP_FindMaster ==
    /\ pc = "vp_findMaster"
    /\ LET masterCategory == findCategoryForBranch(config.masterBranch)
       IN IF MasterCategoryNotFound(masterCategory)
          THEN /\ events' = SetFailed(events, "masterCategoryNotFound")
               /\ pc' = "done"
               /\ loc' = loc
          ELSE /\ loc' = [loc EXCEPT !.masterCategory = masterCategory]
               /\ pc' = "vp_clone"
               /\ events' = events
    /\ UNCHANGED <<cats, comps, tasks, config, pending, hist, snap, fs>>

VP_Clone ==
    /\ pc = "vp_clone"
    /\ IF loc.masterCategory = EmptyStr
       THEN \* masterCategory is undefined: reading masterCategory.id throws
            /\ events' = Crash(events, "masterCategoryUndefined")
            /\ pc' = "done"
            /\ UNCHANGED <<pending, loc>>
       ELSE LET masterComponents == getComponentsInCategory(loc.masterCategory)
                calls == {PRCloneCall(masterComponents[i], loc.masterCategory,
                                      masterComponents) :
                             i \in 1..Len(masterComponents)}
            IN /\ pending' = pending \cup calls
               /\ loc' = [loc EXCEPT !.issued = @ \cup {Issued(c) : c \in calls},
                                     !.cloned = TRUE]
               /\ pc' = "vp_cloneJoin"
               /\ events' = events
    /\ UNCHANGED <<cats, comps, tasks, config, hist, snap, fs>>

VP_CloneJoin ==
    /\ pc = "vp_cloneJoin"
    /\ CreatesJoined
    /\ loc' = [loc EXCEPT !.barrier = "waiting", !.barrierNames = loc.created]
    /\ pc' = "vp_cloneWait"
    /\ UNCHANGED <<cats, comps, tasks, config, pending, events, hist, snap, fs>>

VP_CloneWait ==
    /\ pc = "vp_cloneWait"
    /\ TasksIdle(loc.categorySlug, loc.barrierNames)
    /\ loc' = [loc EXCEPT !.barrier = "none", !.barrierNames = {}, !.created = {},
                          !.clonesAwaited = loc.barrierNames]
    /\ pc' = "vp_resolve"
    /\ UNCHANGED <<cats, comps, tasks, config, pending, events, hist, snap, fs>>

VP_Pull ==
    /\ pc = "vp_pull"
    /\ \E mergeFailureMessage \in BOOLEAN :
        /\ loc' = [loc EXCEPT !.pulled = TRUE, !.pullFailed = mergeFailureMessage,
                              !.message = IF PullFailed(mergeFailureMessage)
                                          THEN "pullMergeFailure" ELSE "none"]
        /\ IF PullFailed(mergeFailureMessage)
           THEN pc' = "vp_comment" ELSE pc' = "vp_resolve"
    /\ UNCHANGED <<cats, comps, tasks, config, pending, events, hist, snap, fs>>

VP_ResolveIn(listings) ==
    /\ pc = "vp_resolve"
    /\ \E dirents \in listings :
        /\ fs' = dirents
        /\ loc' = [loc EXCEPT !.componentsInCode =
                                  resolveComponentsDirect(KeysetsPath, MainLanguage,
                                                          dirents),
                              !.resolved = TRUE]
    /\ pc' = "vp_first"
    /\ UNCHANGED <<cats, comps, tasks, config, pending, events, hist, snap>>

VP_Resolve == VP_ResolveIn(Listings)

VP_First ==
    /\ pc = "vp_first"
    /\ IF loc.componentsInCode = <<>>
       THEN \* firstComponent is undefined: reading firstComponent.name throws
            /\ events' = Crash(events, "firstComponentUndefined")
            /\ pc' = "done"
            /\ UNCHANGED <<pending, loc>>
       ELSE /\ pending' = pending \cup {PRFirstCall(Head(loc.componentsInCode))}
            /\ loc' = [loc EXCEPT !.issued = @ \cup {Issued(PRFirstCall(Head(loc.componentsInCode)))}]
            /\ pc' = "vp_firstDone"
            /\ events' = events
    /\ UNCHANGED <<cats, comps, tasks, config, hist, snap, fs>>

VP_FirstDone ==
    /\ pc = "vp_firstDone"
    /\ FirstAwaited
    /\ loc' = [loc EXCEPT !.first = PRComponentName(Head(loc.componentsInCode).name, config)]
    /\ pc' = "vp_rest"
    /\ UNCHANGED <<cats, comps, tasks, config, pending, events, hist, snap, fs>>

VP_Rest ==
    /\ pc = "vp_rest"
    /\ LET calls == {PRRestCall(loc.componentsInCode[i]) :
                        i \in 2..Len(loc.componentsInCode)}
       IN /\ pending' = pending \cup calls
          /\ loc' = [loc EXCEPT !.issued = @ \cup {Issued(c) : c \in calls}]
    /\ pc' = "vp_join"
    /\ UNCHANGED <<cats, comps, tasks, config, events, hist, snap, fs>>

\* await Promise.all(createComponentsPromises) has resolved. mainBefore, the
\* history of the category's unlinked components before the creates, is kept
\* only while a create can be in flight.
VP_Join ==
    /\ pc = "vp_join"
    /\ CreatesJoined
    /\ loc' = [loc EXCEPT !.reconciled = TRUE, !.mainBefore = {}]
    /\ pc' = "vp_pullFirst"
    /\ UNCHANGED <<cats, comps, tasks, config, pending, events, hist, snap, fs>>

PRShouldPullFirstInverted(wasRecentlyCreated) == wasRecentlyCreated

\* if (!categoryWasRecentlyCreated)
PRShouldPullFirst(wasRecentlyCreated) == ~wasRecentlyCreated

\* await weblate.pullComponentRemoteChanges({name: firstWeblateComponent.name, ...}):
\* the platform starts a pull task on that component.
VP_PullFirst ==
    /\ pc = "vp_pullFirst"
    /\ tasks' = IF PRShouldPullFirst(loc.wasRecentlyCreated)
                THEN tasks \cup {<<loc.categorySlug, loc.first>>} ELSE tasks
    /\ loc' = [loc EXCEPT !.pulledFirst = PRShouldPullFirst(loc.wasRecentlyCreated)]
    /\ pc' = "vp_barrier"
    /\ UNCHANGED <<cats, comps, config, pending, events, hist, snap, fs>>

\* componentNames: weblateComponents.map(({name}) => name)
PRBarrierNames == loc.created

VP_Barrier ==
    /\ pc = "vp_barrier"
    /\ loc' = [loc EXCEPT !.barrier = "waiting",
                          !.barrierNames = PRBarrierNames]
    /\ pc' = "vp_wait"
    /\ UNCHANGED <<cats, comps, tasks, config, pending, events, hist, snap, fs>>

VP_Wait ==
    /\ pc = "vp_wait"
    /\ TasksIdle(loc.categorySlug, loc.barrierNames)
    /\ loc' = [loc EXCEPT !.barrier = "resolved"]
    /\ pc' = "vp_remove"
    /\ UNCHANGED <<cats, comps, tasks, config, pending, events, hist, snap, fs>>

\* await removeMissingComponents({..., componentsInCode}); removedAny records
\* whether it deleted a component.
VP_Remove ==
    /\ pc = "vp_remove"
    /\ LET cat == loc.categorySlug
           after == CompsAfterRemoveMissing(comps[cat], config,
                                            RemovalInput(loc.componentsInCode))
       IN /\ comps' = [comps EXCEPT ![cat] = after]
          /\ tasks' = {t \in tasks : t[1] # cat \/ t[2] \in NameSet(after)}
          /\ loc' = [loc EXCEPT !.removed = TRUE, !.removedAny = after # comps[cat]]
    /\ pc' = "vp_classify"
    /\ UNCHANGED <<cats, config, pending, events, hist, snap, fs>>

PRHealthPushNotFatal(errs) ==
    IF errs.mergeFailureError THEN "mergeFailureError"
    ELSE IF errs.needsCommitError THEN "needsCommitError"
    ELSE "none"

\* The three checks on repositoryErrors of validatePullRequest: the message of
\* the first condition present, which is posted as a PR comment and passed to
\* setFailed before the handler returns; "none" when all three are absent.
PRHealth(errs) ==
    IF errs.mergeFailureError THEN "mergeFailureError"
    ELSE IF errs.needsCommitError THEN "needsCommitError"
    ELSE IF errs.needsPushError THEN "needsPushError"
    ELSE "none"

VP_Classify ==
    /\ pc = "vp_classify"
    /\ \E e \in RepositoryErrorValues :
        /\ loc' = [loc EXCEPT !.errs = e, !.classified = TRUE, !.message = PRHealth(e)]
        /\ pc' = IF PRHealth(e) = "none" THEN "vp_untranslated" ELSE "vp_comment"
    /\ UNCHANGED <<cats, comps, tasks, config, pending, events, hist, snap, fs>>

VP_Untranslated ==
    /\ pc = "vp_untranslated"
    /\ \E untranslatedComponentsError \in BOOLEAN :
        /\ loc' = [loc EXCEPT !.untranslated = untranslatedComponentsError,
                              !.untranslatedChecked = TRUE,
                              !.message = IF untranslatedComponentsError
                                          THEN "untranslatedComponents" ELSE "none"]
        /\ pc' = IF untranslatedComponentsError THEN "vp_comment" ELSE "done"
    /\ UNCHANGED <<cats, comps, tasks, config, pending, events, hist, snap, fs>>

\* await octokit.rest.issues.createComment({..., body: message}) settles: the
\* comment is posted, or the call rejects and the rejection is not caught.
VP_Comment ==
    /\ pc = "vp_comment"
    /\ \E posted \in BOOLEAN :
        IF posted
        THEN events' = Comment(events, loc.message) /\ pc' = "vp_setFailed"
        ELSE events' = Crash(events, "createCommentRejected") /\ pc' = "done"
    /\ UNCHANGED <<cats, comps, tasks, config, loc, pending, hist, snap, fs>>

\* setFailed(message); return;
VP_SetFailed ==
    /\ pc = "vp_setFailed"
    /\ events' = SetFailed(events, loc.message)
    /\ pc' = "done"
    /\ UNCHANGED <<cats, comps, tasks, config, loc, pending, hist, snap, fs>>

validatePullRequest ==
    \/ VP_Category \/ VP_FindMaster \/ VP_Clone \/ VP_CloneJoin \/ VP_CloneWait
    \/ VP_Pull \/ VP_Resolve \/ VP_First \/ VP_FirstDone \/ VP_Rest \/ VP_Join
    \/ VP_PullFirst \/ VP_Barrier \/ VP_Wait \/ VP_Remove \/ VP_Classify
    \/ VP_Untranslated \/ VP_Comment \/ VP_SetFailed

\* ----------------------------------------------------------- removeBranch

RemoveBranchGuardInverted(category) == category # EmptyStr

\* if (!category)
RemoveBranchNotFound(category) == category = EmptyStr

RB_Find ==
    /\ pc = "rb_find"
    /\ loc' = [NoLoc EXCEPT !.categorySlug = findCategoryForBranch(PRCategoryName(config))]
    /\ pc' = IF RemoveBranchNotFound(findCategoryForBranch(PRCategoryName(config)))
             THEN "done" ELSE "rb_remove"
    /\ UNCHANGED <<cats, comps, tasks, config, pending, events, hist, snap, fs>>

\* await weblate.removeCategory(category.id): the category and, by cascade, its
\* components are deleted.
RB_Remove ==
    /\ pc = "rb_remove"
    /\ IF loc.categorySlug = EmptyStr
       THEN \* category is undefined: reading category.id throws
            /\ events' = Crash(events, "categoryUndefined")
            /\ UNCHANGED <<cats, comps, tasks, loc>>
       ELSE /\ cats' = cats \ {loc.categorySlug}
            /\ comps' = [comps EXCEPT ![loc.categorySlug] = <<>>]
            /\ tasks' = {t \in tasks : t[1] # loc.categorySlug}
            /\ loc' = [loc EXCEPT !.removeCalls = Append(@, loc.categorySlug)]
            /\ events' = events
    /\ pc' = "done"
    /\ UNCHANGED <<config, pending, hist, snap, fs>>

removeBranch == RB_Find \/ RB_Remove

\* The invocation has ended: the process exits and the next trigger may start.
CleanRun == ~loc.pullFailed /\ loc.errs = NoErrors /\ loc.removed /\ ~Failed /\ ~Crashed

\* The invocation created the PR category and returned at the trunk lookup.
StoppedBeforeClone ==
    loc.wasRecentlyCreated /\ events = <<Event("setFailed", "masterCategoryNotFound")>>

Finish ==
    /\ pc = "done"
    /\ pending = {}
    /\ tasks = {}
    /\ pc' = "idle"
    /\ hist' = IF config.mode = "SYNC_MASTER" /\ CleanRun
               THEN [mode |-> config.mode, code |-> loc.componentsInCode,
                     target |-> loc.categorySlug]
               ELSE IF config.mode = "REMOVE_BRANCH"
               THEN [NoHist EXCEPT !.mode = config.mode, !.target = PRCategoryName(config)]
               ELSE IF config.mode = "VALIDATE_PULL_REQUEST" /\ StoppedBeforeClone
               THEN [NoHist EXCEPT !.mode = config.mode, !.target = loc.categorySlug]
               ELSE NoHist
    /\ config' = NoConfig
    /\ loc' = NoLoc
    /\ events' = <<>>
    /\ snap' = NoSnap
    /\ fs' = <<>>
    /\ UNCHANGED <<cats, comps, tasks, pending>>

Next ==
    \/ Start \/ CompleteCreate \/ TaskDone \/ Finish
    \/ syncMaster \/ validatePullRequest \/ removeBranch

Spec == Init /\ [][Next]_vars

\* --------------------------------------------- work trees of three groups

\* The listings of the work tree and one with three resource groups, for
\* which the handlers issue two rest createComponent calls at once.
WideListings ==
    Listings \cup
        {<<Dirent(<<"a">>, TRUE), Dirent(<<"b">>, TRUE), Dirent(<<"c">>, TRUE)>>}

\* The trunk and one pull request.
WideConfigs == {cfg \in Configs : cfg.pullRequestNumber \in {0, 1}}

StartWide == StartWith(WideConfigs)

SM_ResolveWide == SM_ResolveIn(WideListings)

VP_ResolveWide == VP_ResolveIn(WideListings)

NextWide ==
    \/ StartWide \/ CompleteCreate \/ TaskDone \/ Finish
    \/ SM_Category \/ SM_Pull \/ SM_ResolveWide \/ SM_First \/ SM_FirstDone
    \/ SM_Main \/ SM_Rest \/ SM_Join \/ SM_Barrier \/ SM_Wait \/ SM_Remove
    \/ SM_Classify
    \/ VP_Category \/ VP_FindMaster \/ VP_Clone \/ VP_CloneJoin \/ VP_CloneWait
    \/ VP_Pull \/ VP_ResolveWide \/ VP_First \/ VP_FirstDone \/ VP_Rest \/ VP_Join
    \/ VP_PullFirst \/ VP_Barrier \/ VP_Wait \/ VP_Remove \/ VP_Classify
    \/ VP_Untranslated \/ VP_Comment \/ VP_SetFailed
    \/ removeBranch

SpecWide == Init /\ [][NextWide]_vars

\* ------------------------------------------- resolveComponents on its own

\* Inputs of one resolveComponents call: the path or pattern, the main
\* language, what glob() matched with the outcome of reading each matched
\* directory, and the outcome of reading the path itself.
PatternStar == ProjectsStr \o <<"/", "x", "/", "*">>

PatternQuestion == <<"s", "/", "?">>

PatternBracket == <<"[", "k", "s", "]">>

PatternTwoLevels == <<"*", "/", "*">>

GlobPatterns == {PatternStar, PatternQuestion, PatternBracket, PatternTwoLevels}

DirectPaths ==
    {<<"k">>, <<"s", "/", "k">>, <<".", "/", "k">>, <<"k", "/">>, <<".">>,
     <<"s", "/", ".", ".", "/", "k">>, <<"s", "/", "/", "k">>}

Languages == {MainLanguage, <<"r", "u">>}

\* The directories of the work tree a pattern can match.
MatchedDirNames(pattern) ==
    CASE pattern = PatternStar ->
            {ProjectsStr \o <<"/", "x", "/", "k">>, ProjectsStr \o <<"/", "x", "/", "j">>}
      [] pattern = PatternQuestion -> {<<"s", "/", "k">>, <<"s", "/", "j">>}
      [] pattern = PatternBracket -> {<<"k">>, <<"s">>}
      [] OTHER ->
            {<<"s", "/", "k">>, <<"s", "/", "j">>, <<"s", "/">> \o ProjectsStr,
             ProjectsStr \o <<"/", "x">>}

SubListings ==
    { <<>>,
      <<Dirent(<<"c">>, TRUE)>>,
      <<Dirent(<<".", "h">>, TRUE), Dirent(<<"c">>, TRUE),
        Dirent(<<"d">>, TRUE), Dirent(<<"r">>, FALSE)>> }

ReadResults == {ReadFailed} \cup {ReadOk(l) : l \in SubListings}

MatchedEntries(pattern) == [dir : MatchedDirNames(pattern), read : ReadResults]

\* glob() returns each matching directory once, in an order of its own.
MatchLists(pattern) ==
    {m \in UNION {[1..n -> MatchedEntries(pattern)] : n \in 0..MaxDirs} :
        \A i, j \in 1..Len(m) : i # j => m[i].dir # m[j].dir}

Worlds ==
    UNION {{[keysetsPath |-> p, mainLanguage |-> l, matched |-> m,
              direct |-> ReadOk(<<>>)] : l \in Languages, m \in MatchLists(p)} :
            p \in GlobPatterns}
    \cup {[keysetsPath |-> p, mainLanguage |-> l, matched |-> <<>>, direct |-> r] :
        p \in DirectPaths, l \in Languages,
        r \in {ReadFailed} \cup {ReadOk(d) : d \in Listings \cup SubListings}}

NoResolve == [isGlob |-> FALSE, components |-> <<>>, returned |-> FALSE, reading |-> 0]

InitResolve ==
    /\ cats = {}
    /\ comps = [c \in CatNames |-> <<>>]
    /\ tasks = {}
    /\ pc = "rc_call"
    /\ config = NoConfig
    /\ loc = NoResolve
    /\ pending = {}
    /\ events = <<>>
    /\ hist = NoHist
    /\ snap = NoSnap
    /\ fs \in Worlds

RC_Enter ==
    /\ pc = "rc_call"
    /\ loc' = [loc EXCEPT !.isGlob = isGlobPattern(fs.keysetsPath)]
    /\ pc' = IF isGlobPattern(fs.keysetsPath) THEN "rc_glob" ELSE "rc_direct"
    /\ UNCHANGED <<cats, comps, tasks, config, pending, events, hist, snap, fs>>

\* await glob(...) resolves: the loop issues the read of the first matched
\* directory, or the call returns when nothing matched.
RC_Glob ==
    /\ pc = "rc_glob"
    /\ IF fs.matched = <<>>
       THEN loc' = [loc EXCEPT !.returned = TRUE] /\ pc' = "rc_done"
       ELSE loc' = [loc EXCEPT !.reading = 1] /\ pc' = "rc_read"
    /\ UNCHANGED <<cats, comps, tasks, config, pending, events, hist, snap, fs>>

\* await fs.readdir(...) of the matched directory being read settles: its
\* groups are pushed or its failure is logged, then the next read is issued or
\* the call returns.
RC_Read ==
    /\ pc = "rc_read"
    /\ LET m == fs.matched[loc.reading]
           last == loc.reading = Len(fs.matched)
       IN /\ loc' = [loc EXCEPT !.components = GlobIteration(@, m, fs.mainLanguage),
                                !.reading = IF last THEN 0 ELSE @ + 1,
                                !.returned = last]
          /\ events' = IF m.read.ok THEN events ELSE Warn(events, m.dir)
          /\ pc' = IF last THEN "rc_done" ELSE "rc_read"
    /\ UNCHANGED <<cats, comps, tasks, config, pending, hist, snap, fs>>

RC_Direct ==
    /\ pc = "rc_direct"
    /\ IF fs.direct.ok
       THEN /\ loc' = [loc EXCEPT !.components =
                                      resolveComponentsDirect(fs.keysetsPath,
                                                              fs.mainLanguage,
                                                              fs.direct.dirents),
                                  !.returned = TRUE]
            /\ events' = events
       ELSE \* fs.readdir rejects outside any try block: the call rejects
            /\ events' = Crash(events, "readdirFailed")
            /\ loc' = loc
    /\ pc' = "rc_done"
    /\ UNCHANGED <<cats, comps, tasks, config, pending, hist, snap, fs>>

NextResolve == RC_Enter \/ RC_Glob \/ RC_Read \/ RC_Direct

SpecResolve == InitResolve /\ [][NextResolve]_vars

\* ------------------------------------------------------------------ claims

InPRMode == config.mode = "VALIDATE_PULL_REQUEST"

InSyncMode == config.mode = "SYNC_MASTER"

AtRemoval == pc \in {"sm_remove", "vp_remove"}

AtPreRemovalBarrier == pc \in {"sm_wait", "vp_wait"}

AfterReconcile == pc \in {"sm_barrier", "vp_pullFirst"}

\* The names passed to the createComponent calls of the reconcile step.
ReconcileNames == {c.name : c \in {d \in loc.issued : d.kind \in {"first", "rest"}}}

UnlinkedNames(cat) == {c.name : c \in MainCandidates(cat)}

RECURSIVE ResolvesTo(_, _, _, _)
\* Following linked_component from component name inside category cat reaches
\* target within fuel steps.
ResolvesTo(cat, name, target, fuel) ==
    LET i == IndexOfName(comps[cat], name)
    IN IF i = 0 \/ fuel = 0 THEN FALSE
       ELSE LET c == comps[cat][i]
            IN IF ~HasLinkedComponent(c) THEN c.name = target
               ELSE c.repo.cat = cat /\ ResolvesTo(cat, c.repo.comp, target, fuel - 1)

OneMainAllLinked(cat) ==
    /\ Cardinality(UnlinkedNames(cat)) = 1
    /\ \A n \in NameSet(comps[cat]) :
        \A m \in UnlinkedNames(cat) : ResolvesTo(cat, n, m, Len(comps[cat]))

OnlyNeedsCommit == [NoErrors EXCEPT !.needsCommitError = TRUE]

\* C1: in syncMaster and validatePullRequest the removal step starts only when
\* every createComponent call of the invocation has completed and the barrier
\* that follows them has resolved.
C1_RemovalAfterCreatesAndBarrier ==
    AtRemoval => pending = {} /\ loc.barrier = "resolved"

C1_Witness ==
    /\ pc = "vp_remove"
    /\ Cardinality(ReconcileNames) = 2
    /\ \E c \in loc.issued : c.kind = "clone"

\* C2 (as claimed): the barrier that precedes the removal is called with the
\* names of every component present in the category at that moment.
C2_BarrierCoversCategory ==
    AtPreRemovalBarrier => loc.barrierNames = NameSet(comps[loc.categorySlug])

\* C3 (as claimed): a repository status whose only condition is
\* needsCommitError never marks the run failed: a warning is logged and the
\* run is not failed for that reason.
C3_NeedsCommitNeverFatal ==
    (pc = "done" /\ loc.classified /\ loc.errs = OnlyNeedsCommit) =>
        /\ \E i \in 1..Len(events) : events[i].kind = "warn"
        /\ \A i \in 1..Len(events) :
            events[i].kind = "setFailed" => events[i].reason # "needsCommitError"

\* C4 (as claimed): in validatePullRequest every setFailed is preceded by a PR
\* comment carrying the same failure reason.
C4_CommentBeforeSetFailed ==
    InPRMode =>
        \A i \in 1..Len(events) :
            events[i].kind = "setFailed" =>
                \E j \in 1..(i - 1) :
                    events[j].kind = "comment" /\ events[j].reason = events[i].reason

\* C5: once setFailed has been called the handler does nothing more in that
\* invocation: setFailed is the last logged call, the handler has returned and
\* no createComponent call is in flight.
C5_NothingAfterSetFailed ==
    /\ \A i \in 1..Len(events) : events[i].kind = "setFailed" => i = Len(events)
    /\ Failed => pc = "done" /\ pending = {}

C5_Witness ==
    /\ InSyncMode
    /\ Failed
    /\ loc.errs.mergeFailureError
    /\ loc.errs.needsCommitError
    /\ loc.errs.needsPushError

\* C6 (as claimed): after the reconcile step exactly one component of the
\* category has no linked_component and every other one resolves to it.
C6_ReconcileInvariant ==
    AfterReconcile => OneMainAllLinked(loc.categorySlug)

\* C7: after removeMissingComponents the category's component names are
\* exactly the names the handler created for the discovered groups.
C7_RemovalInvariant ==
    loc.removed => NameSet(comps[loc.categorySlug]) = ReconcileNames

C7_Witness ==
    /\ InPRMode
    /\ loc.removed
    /\ ReconcileNames # {}
    /\ loc.removedAny

C7_WitnessSync ==
    /\ InSyncMode
    /\ loc.removed
    /\ loc.removedAny

\* C8: a syncMaster run that follows a completed clean syncMaster run with the
\* same discovered groups, and itself sees a clean status, reports no fatal
\* condition and leaves the category's names and unlinked main unchanged.
SecondCleanSync ==
    /\ pc = "done"
    /\ InSyncMode
    /\ snap.prev.mode = "SYNC_MASTER"
    /\ loc.resolved => snap.prev.code = loc.componentsInCode
    /\ ~loc.pullFailed
    /\ loc.errs = NoErrors

C8_SyncIdempotent ==
    SecondCleanSync =>
        /\ ~Failed
        /\ ~Crashed
        /\ loc.removed
        /\ NameSet(comps[MasterBranch]) = NameSet(snap.comps[MasterBranch])
        /\ UnlinkedNames(MasterBranch) =
            {c.name : c \in {snap.comps[MasterBranch][i] :
                i \in {j \in 1..Len(snap.comps[MasterBranch]) :
                    ~HasLinkedComponent(snap.comps[MasterBranch][j])}}}

C8_Witness ==
    /\ SecondCleanSync
    /\ Len(loc.componentsInCode) = 2
    /\ loc.pulled

\* C9: removeBranch makes no mutating call and does not fail when the category
\* is absent, and otherwise issues exactly one removeCategory for it and
\* changes nothing else; a run that follows a removeBranch run for the same
\* branch changes nothing.
C9_RemoveBranchIdempotent ==
    (config.mode = "REMOVE_BRANCH" /\ pc = "done") =>
        LET t == PRCategoryName(config)
        IN /\ ~Failed
           /\ ~Crashed
           /\ IF t \notin snap.cats
              THEN loc.removeCalls = <<>> /\ cats = snap.cats /\ comps = snap.comps
              ELSE /\ loc.removeCalls = <<t>>
                   /\ cats = snap.cats \ {t}
                   /\ comps = [snap.comps EXCEPT ![t] = <<>>]
           /\ (snap.prev.mode = "REMOVE_BRANCH" /\ snap.prev.target = t) =>
                loc.removeCalls = <<>> /\ cats = snap.cats /\ comps = snap.comps

C9_Witness ==
    /\ config.mode = "REMOVE_BRANCH"
    /\ pc = "done"
    /\ loc.removeCalls # <<>>
    /\ snap.comps[PRCategoryName(config)] # <<>>
    /\ Cardinality(cats) = 2

C9_WitnessSecondRun ==
    /\ config.mode = "REMOVE_BRANCH"
    /\ pc = "done"
    /\ snap.prev.mode = "REMOVE_BRANCH"
    /\ snap.prev.target = PRCategoryName(config)
    /\ cats # {}

\* C10: in validatePullRequest the category is "<branch>__<prNumber>" and every
\* createComponent call is named "<origin>__<prNumber>" inside that category;
\* no name or category addressed collides with a component or category of a
\* different pull request.
C10_PRNamesSuffixed ==
    InPRMode =>
        LET suffix == <<"_", "_">> \o ToStr(config.pullRequestNumber)
        IN /\ loc.categorySlug # EmptyStr => loc.categorySlug = config.branchName \o suffix
           /\ \A c \in loc.issued :
                /\ c.name = c.origin \o suffix
                /\ c.cat = config.branchName \o suffix
           /\ loc.categorySlug # EmptyStr =>
                \A i \in 1..Len(comps[loc.categorySlug]) :
                    comps[loc.categorySlug][i].pr \in {0, config.pullRequestNumber}
           /\ \A c \in loc.issued : \A cat \in CatNames : \A i \in 1..Len(comps[cat]) :
                comps[cat][i].name = c.name =>
                    comps[cat][i].pr \in {0, config.pullRequestNumber}

C10_Witness ==
    /\ InPRMode
    /\ pc = "vp_join"
    /\ pending = {}
    /\ \E c \in loc.issued : c.kind = "clone"
    /\ \E c \in loc.issued : c.kind = "rest"
    /\ \E cat \in CatNames : \E i \in 1..Len(comps[cat]) :
        comps[cat][i].pr \notin {0, config.pullRequestNumber}

\* C11: in validatePullRequest the untranslated-components check is evaluated
\* only after the barrier, the removal and the health classification have
\* completed with no fatal condition; an error it reports is posted as a PR
\* comment and fails the run, and without one the run succeeds.
C11_UntranslatedCheckLast ==
    InPRMode =>
        /\ (pc = "vp_untranslated" \/ loc.untranslatedChecked) =>
            /\ loc.barrier = "resolved"
            /\ loc.removed
            /\ loc.classified
            /\ ~loc.errs.mergeFailureError
            /\ ~loc.errs.needsPushError
            /\ pending = {}
            /\ pc = "vp_untranslated" => events = <<>>
        /\ (pc = "done" /\ loc.untranslatedChecked /\ loc.untranslated) =>
            \/ events = <<Event("comment", "untranslatedComponents"),
                          Event("setFailed", "untranslatedComponents")>>
            \/ events = <<Event("crash", "createCommentRejected")>>
        /\ (pc \in {"vp_comment", "vp_setFailed"} /\ loc.untranslatedChecked) =>
            /\ loc.untranslated
            /\ ~Failed
            /\ \A i \in 1..Len(events) :
                events[i] = Event("comment", "untranslatedComponents")
        /\ (pc = "done" /\ loc.untranslatedChecked /\ ~loc.untranslated) =>
            ~Failed /\ ~Crashed

C11_Witness ==
    /\ InPRMode
    /\ pc = "done"
    /\ loc.untranslatedChecked
    /\ loc.untranslated
    /\ Failed
    /\ Len(loc.componentsInCode) = 2

C11_WitnessSuccess ==
    /\ InPRMode
    /\ pc = "done"
    /\ loc.untranslatedChecked
    /\ ~loc.untranslated
    /\ loc.removedAny

ResolveReturned == pc = "rc_done" /\ loc.returned

JsonSuffix == <<".", "j", "s", "o", "n">>

\* A listed entry yields a group: it is a directory and not hidden.
Qualifies(dirent) == dirent.isDir /\ dirent.name[1] # "."

\* The <<i, j>> with entry j of successfully read matched directory i
\* qualifying, and the position of such a pair in match-then-listing order.
QualifyingPairs(matched) ==
    {q \in (1..Len(matched)) \X (1..4) :
        /\ matched[q[1]].read.ok
        /\ q[2] <= Len(matched[q[1]].read.dirents)
        /\ Qualifies(matched[q[1]].read.dirents[q[2]])}

RankOfPair(matched, q) ==
    1 + Cardinality({r \in QualifyingPairs(matched) :
                        r[1] < q[1] \/ (r[1] = q[1] /\ r[2] < q[2])})

\* The prefix as the claim words it: the segment after a "projects" segment
\* that has a successor, else the name of the matched directory's parent.
ClaimedPrefix(dir) ==
    LET parts == Split(dir, "/")
        hits == {k \in 1..(Len(parts) - 1) : parts[k] = ProjectsStr}
    IN IF hits # {}
       THEN parts[(CHOOSE k \in hits : \A h \in hits : k <= h) + 1]
       ELSE IF Len(parts) >= 2 THEN parts[Len(parts) - 1] ELSE <<".">>

ClaimedGroup(prefix, dir, sub, mainLanguage) ==
    [name |-> prefix \o sub,
     source |-> dir \o <<"/">> \o sub \o <<"/">> \o mainLanguage \o JsonSuffix,
     fileMask |-> dir \o <<"/">> \o sub \o <<"/", "*">> \o JsonSuffix]

ClaimedGlobResult(result, matched, mainLanguage) ==
    /\ Len(result) = Cardinality(QualifyingPairs(matched))
    /\ \A q \in QualifyingPairs(matched) :
        result[RankOfPair(matched, q)] =
            ClaimedGroup(ClaimedPrefix(matched[q[1]].dir) \o <<"_">>,
                         matched[q[1]].dir,
                         matched[q[1]].read.dirents[q[2]].name, mainLanguage)

RECURSIVE FailedDirs(_)
\* The matched directories whose read threw, in match order.
FailedDirs(matched) ==
    IF matched = <<>> THEN <<>>
    ELSE IF Head(matched).read.ok THEN FailedDirs(Tail(matched))
         ELSE <<Head(matched).dir>> \o FailedDirs(Tail(matched))

\* The matched directories whose read has settled.
ReadSoFar ==
    IF pc = "rc_read" THEN SubSeq(fs.matched, 1, loc.reading - 1)
    ELSE IF pc = "rc_done" THEN fs.matched ELSE <<>>

AllRead(matched) == \A i \in 1..Len(matched) : matched[i].read.ok

\* C12 (as claimed): the names of the groups returned by one resolveComponents
\* call are pairwise distinct.
C12_NamesDistinct ==
    ResolveReturned =>
        \A i, j \in 1..Len(loc.components) :
            i # j => loc.components[i].name # loc.components[j].name

\* C13: for a glob pattern the result holds, for each matched directory in
\* match order and each qualifying subdirectory in listing order, the group
\* "<prefix>_<subdir>" with source "<dir>/<subdir>/<mainLanguage>.json" and
\* fileMask "<dir>/<subdir>/*.json", and nothing else.
C13_GlobGroups ==
    (ResolveReturned /\ loc.isGlob /\ AllRead(fs.matched)) =>
        /\ isGlobPattern(fs.keysetsPath)
        /\ ClaimedGlobResult(loc.components, fs.matched, fs.mainLanguage)

C13_Witness ==
    /\ ResolveReturned
    /\ loc.isGlob
    /\ Len(fs.matched) = 2
    /\ AllRead(fs.matched)
    /\ Len(loc.components) = 4
    /\ ClaimedPrefix(fs.matched[1].dir) = <<"x">>
    /\ ClaimedPrefix(fs.matched[2].dir) = <<"s">>

C13_WitnessNoSuccessor ==
    /\ ResolveReturned
    /\ loc.isGlob
    /\ Len(loc.components) = 3
    /\ fs.matched[1].dir = <<"s", "/">> \o ProjectsStr
    /\ AllRead(fs.matched)

C13_WitnessOneSegment ==
    /\ ResolveReturned
    /\ fs.keysetsPath = PatternBracket
    /\ Len(loc.components) = 3
    /\ fs.matched[1].dir = <<"k">>
    /\ AllRead(fs.matched)

\* C14 (as claimed): for a path with no glob metacharacter the result holds
\* exactly one group per qualifying entry of the directory, in listing order,
\* named after the subdirectory verbatim, with source
\* "<path>/<subdir>/<mainLanguage>.json" and fileMask "<path>/<subdir>/*.json"
\* for the path as configured; files and hidden directories give none and a
\* directory without qualifying entry gives the empty list.
C14_DirectGroups ==
    (ResolveReturned /\ ~loc.isGlob) =>
        LET dirents == fs.direct.dirents
            qual == {j \in 1..Len(dirents) : Qualifies(dirents[j])}
        IN /\ ~isGlobPattern(fs.keysetsPath)
           /\ Len(loc.components) = Cardinality(qual)
           /\ \A j \in qual :
                loc.components[1 + Cardinality({h \in qual : h < j})] =
                    ClaimedGroup(<<>>, fs.keysetsPath, dirents[j].name, fs.mainLanguage)
           /\ qual = {} => loc.components = <<>>

\* The normal form of the direct paths: "./k" and "k/" and "s/../k" name k,
\* "s//k" names s/k, "." names the working directory itself.
NormalFormOfPath(path) ==
    CASE path = <<".", "/", "k">> -> <<"k">>
      [] path = <<"k", "/">> -> <<"k">>
      [] path = <<"s", "/", ".", ".", "/", "k">> -> <<"k">>
      [] path = <<"s", "/", "/", "k">> -> <<"s", "/", "k">>
      [] path = <<".">> -> <<>>
      [] OTHER -> path

\* The group of a subdirectory under a path in normal form.
NormalisedGroup(path, sub, mainLanguage) ==
    LET prefix == IF path = <<>> THEN <<>> ELSE path \o <<"/">>
    IN [name |-> sub,
        source |-> prefix \o sub \o <<"/">> \o mainLanguage \o JsonSuffix,
        fileMask |-> prefix \o sub \o <<"/", "*">> \o JsonSuffix]

\* C14 (amended): as claimed, with source and fileMask built on the normal
\* form of the path ('.' and empty segments dropped, '..' resolved, no
\* trailing '/'), which is the configured path itself only when that is
\* already in normal form.
C14_DirectGroupsNormalised ==
    (ResolveReturned /\ ~loc.isGlob) =>
        LET dirents == fs.direct.dirents
            qual == {j \in 1..Len(dirents) : Qualifies(dirents[j])}
        IN /\ ~isGlobPattern(fs.keysetsPath)
           /\ Len(loc.components) = Cardinality(qual)
           /\ \A j \in qual :
                loc.components[1 + Cardinality({h \in qual : h < j})] =
                    NormalisedGroup(NormalFormOfPath(fs.keysetsPath), dirents[j].name,
                                    fs.mainLanguage)
           /\ qual = {} => loc.components = <<>>
           /\ NormalFormOfPath(fs.keysetsPath) = fs.keysetsPath =>
                \A j \in qual :
                    loc.components[1 + Cardinality({h \in qual : h < j})] =
                        ClaimedGroup(<<>>, fs.keysetsPath, dirents[j].name,
                                     fs.mainLanguage)

C14_WitnessNormalised ==
    /\ ResolveReturned
    /\ ~loc.isGlob
    /\ fs.keysetsPath = <<".", "/", "k">>
    /\ Len(fs.direct.dirents) = 4
    /\ Len(loc.components) = 2
    /\ fs.mainLanguage # MainLanguage

C14_Witness ==
    /\ ResolveReturned
    /\ ~loc.isGlob
    /\ Len(fs.direct.dirents) = 4
    /\ Len(loc.components) = 2
    /\ fs.mainLanguage # MainLanguage
    /\ fs.keysetsPath = <<"s", "/", "k">>

C14_WitnessEmpty ==
    /\ ResolveReturned
    /\ ~loc.isGlob
    /\ fs.direct.dirents = <<>>
    /\ loc.components = <<>>

\* C15: in glob mode a read failure of any of the matched directories never
\* makes the call fail: after every read the result so far is the concatenation
\* of the groups of the directories read successfully, in match order, with one
\* warning logged per failed directory, and the call returns after the last.
C15_ReadFailuresIsolated ==
    loc.isGlob =>
        /\ ~Crashed
        /\ pc = "rc_done" => loc.returned
        /\ loc.returned => pc = "rc_done"
        /\ ClaimedGlobResult(loc.components, ReadSoFar, fs.mainLanguage)
        /\ events = [i \in 1..Len(FailedDirs(ReadSoFar)) |->
                        Event("warn", FailedDirs(ReadSoFar)[i])]
        /\ Len(events) = Cardinality({i \in 1..Len(ReadSoFar) : ~ReadSoFar[i].read.ok})

C15_Witness ==
    /\ pc = "rc_done"
    /\ loc.isGlob
    /\ Len(fs.matched) = 2
    /\ ~fs.matched[1].read.ok
    /\ fs.matched[2].read.ok
    /\ Len(loc.components) = 2

C15_WitnessPartial ==
    /\ pc = "rc_read"
    /\ loc.reading = 2
    /\ Len(events) = 1
    /\ fs.matched[2].read.ok

C15_WitnessAllFailed ==
    /\ pc = "rc_done"
    /\ loc.isGlob
    /\ Len(fs.matched) = 2
    /\ ~AllRead(fs.matched)
    /\ Len(events) = 2

\* C16 (as claimed): in validatePullRequest the createComponent calls of the
\* reconcile step pass updateIfExist as true exactly when the category already
\* existed before the invocation.
C16_UpdateIfExistWhenPreExisting ==
    InPRMode =>
        \A c \in pending :
            c.kind \in {"first", "rest"} =>
                (c.updateIfExist <=> ~loc.wasRecentlyCreated)

\* C17 (as claimed), for validatePullRequest: every linked (rest) component is
\* created with repo referring to the main component the category held before
\* the run if there is one, and otherwise to the first component just created.
C17_RestLinksToMain ==
    InPRMode =>
        \A c \in pending :
            c.kind = "rest" =>
                \E m \in (IF loc.mainBefore # {} THEN loc.mainBefore ELSE {loc.first}) :
                    c.repo = LinkRepo(loc.categorySlug, m)

\* The rest createComponent calls in flight, and those issued so far.
RestInFlight == {c \in pending : c.kind = "rest"}

RestIssued == {c \in loc.issued : c.kind = "rest"}

\* The names of the invocation's category, in the order the platform holds them.
CategoryNameOrder ==
    [i \in 1..Len(comps[loc.categorySlug]) |-> comps[loc.categorySlug][i].name]

\* C18: no createComponent call for a linked (rest) component is in flight
\* before the call for the first component has completed and the main
\* component is known; the rest calls complete in any order, and all of them
\* have completed when the barrier is invoked.
C18_RestAfterFirstJoinedBeforeBarrier ==
    /\ \A c \in pending :
        c.kind = "rest" =>
            /\ ~\E d \in pending : d.kind = "first"
            /\ loc.first # EmptyStr
            /\ loc.first \in NameSet(comps[loc.categorySlug])
            /\ InSyncMode => loc.main # EmptyStr
    /\ pc \in {"sm_barrier", "sm_wait", "vp_barrier", "vp_wait"} =>
        /\ pending = {}
        /\ \A c \in RestIssued :
            /\ c.name \in loc.created
            /\ c.name \in NameSet(comps[loc.categorySlug])

\* Two rest calls were issued on a new trunk category, the one issued for the
\* later group completed first, and both are joined at the barrier.
C18_Witness ==
    /\ InSyncMode
    /\ pc = "sm_barrier"
    /\ loc.wasRecentlyCreated
    /\ Cardinality(RestIssued) = 2
    /\ CategoryNameOrder = <<<<"a">>, <<"c">>, <<"b">>>>

C18_WitnessInOrder ==
    /\ InSyncMode
    /\ pc = "sm_barrier"
    /\ loc.wasRecentlyCreated
    /\ Cardinality(RestIssued) = 2
    /\ CategoryNameOrder = <<<<"a">>, <<"b">>, <<"c">>>>

\* Two rest calls are in flight at once, after the first call has completed
\* and with a main component that is not the first.
C18_WitnessBothInFlight ==
    /\ InSyncMode
    /\ pc = "sm_join"
    /\ Cardinality(RestInFlight) = 2
    /\ loc.main # loc.first

\* One rest call has completed while the other is still in flight.
C18_WitnessOneInFlight ==
    /\ InSyncMode
    /\ pc = "sm_join"
    /\ Cardinality(RestInFlight) = 1
    /\ \E c \in RestIssued : c.name \in loc.created /\ c \notin {Issued(d) : d \in RestInFlight}

\* The same in validatePullRequest, on a category that existed and was empty
\* when the invocation started.
C18_WitnessPR ==
    /\ InPRMode
    /\ pc = "vp_barrier"
    /\ Cardinality(RestIssued) = 2
    /\ snap.prev.mode = "VALIDATE_PULL_REQUEST"
    /\ loc.categorySlug \in snap.cats
    /\ snap.comps[loc.categorySlug] = <<>>
    /\ CategoryNameOrder =
        <<PRComponentName(<<"a">>, config), PRComponentName(<<"c">>, config),
          PRComponentName(<<"b">>, config)>>

C18_WitnessPRBothInFlight ==
    /\ InPRMode
    /\ pc = "vp_join"
    /\ Cardinality(RestInFlight) = 2

\* C19: in syncMaster the initial pull is executed if and only if the category
\* already existed; when it reports a merge failure the run is marked failed
\* and no discovery, creation, barrier, removal or classification happens.
C19_SyncPullIffPreExisting ==
    InSyncMode =>
        /\ (loc.categorySlug # EmptyStr /\ pc # "sm_pull") =>
            (loc.pulled <=> ~loc.wasRecentlyCreated)
        /\ loc.pullFailed =>
            /\ pc = "done"
            /\ events = <<Event("setFailed", "pullMergeFailure")>>
            /\ ~loc.resolved
            /\ loc.issued = {}
            /\ pending = {}
            /\ loc.barrier = "none"
            /\ ~loc.removed
            /\ ~loc.classified

C19_Witness ==
    /\ InSyncMode
    /\ loc.pullFailed
    /\ comps[MasterBranch] # <<>>

C19_WitnessNoPull ==
    /\ InSyncMode
    /\ loc.wasRecentlyCreated
    /\ loc.removed

\* C20: in validatePullRequest with a newly created PR category and no trunk
\* category the run is marked failed at once with the not-found message: no
\* component is created, no discovery, barrier or removal runs, and the PR
\* category just created stays in place.
C20_TrunkNotFoundStops ==
    InPRMode =>
        /\ (loc.wasRecentlyCreated /\ config.masterBranch \notin cats
                /\ pc # "vp_findMaster") =>
            /\ pc = "done"
            /\ events = <<Event("setFailed", "masterCategoryNotFound")>>
            /\ loc.issued = {}
            /\ pending = {}
            /\ ~loc.resolved
            /\ loc.barrier = "none"
            /\ ~loc.removed
            /\ loc.categorySlug \in cats
            /\ comps[loc.categorySlug] = <<>>
        /\ (\E i \in 1..Len(events) : events[i].reason = "masterCategoryNotFound") =>
            loc.wasRecentlyCreated /\ config.masterBranch \notin cats

C20_Witness ==
    /\ InPRMode
    /\ pc = "done"
    /\ \E i \in 1..Len(events) : events[i].reason = "masterCategoryNotFound"
    /\ Cardinality(cats) = 2

\* The trunk components as the bootstrap read them; the PR invocation writes
\* only to its own category.
TrunkComponents == comps[config.masterBranch]

\* The claimed main of the trunk: the first component without linked_component,
\* or the first listed one when every component has one.
ClaimedTrunkMainIndex(trunk) ==
    CHOOSE i \in 1..Len(trunk) :
        /\ \A j \in 1..(i - 1) : HasLinkedComponent(trunk[j])
        /\ \/ ~HasLinkedComponent(trunk[i])
           \/ i = 1 /\ \A j \in 1..Len(trunk) : HasLinkedComponent(trunk[j])

CloneCallsIssued == {c \in loc.issued : c.kind = "clone"}

CloneNames == {c.name : c \in CloneCallsIssued}

\* C21: in validatePullRequest with a newly created PR category and an existing
\* trunk category exactly one createComponent call is issued per trunk
\* component, with that component's filemask and template and with repo
\* referring to the trunk's main component (the first one without
\* linked_component, else the first listed one); the barrier that follows is
\* called with the names of all clones once they are created, and discovery and
\* the reconcile calls start only after it.
C21_BootstrapClones ==
    (InPRMode /\ loc.wasRecentlyCreated /\ config.masterBranch \in cats
        /\ pc \notin {"vp_findMaster", "vp_clone"}) =>
        /\ loc.cloned
        /\ Cardinality(CloneCallsIssued) = Len(TrunkComponents)
        /\ \A i \in 1..Len(TrunkComponents) :
            \E c \in CloneCallsIssued :
                /\ c.origin = TrunkComponents[i].name
                /\ c.cat = loc.categorySlug
                /\ \A d \in CloneCallsIssued : d.origin = c.origin => d = c
        /\ \A c \in pending :
            /\ pc \in {"vp_cloneJoin", "vp_cloneWait"} => c.kind = "clone"
            /\ c.kind = "clone" =>
                \E i \in 1..Len(TrunkComponents) :
                    /\ c.origin = TrunkComponents[i].name
                    /\ c.fileMask = TrunkComponents[i].filemask
                    /\ c.source = TrunkComponents[i].template
                    /\ c.repo = LinkRepo(config.masterBranch,
                                         TrunkComponents[ClaimedTrunkMainIndex(
                                             TrunkComponents)].name)
        /\ pc \in {"vp_cloneJoin", "vp_cloneWait"} =>
            /\ ~loc.resolved
            /\ \A c \in loc.issued : c.kind = "clone"
        /\ pc = "vp_cloneWait" =>
            /\ pending = {}
            /\ loc.barrier = "waiting"
            /\ loc.barrierNames = CloneNames
            /\ CloneNames \subseteq NameSet(comps[loc.categorySlug])
        /\ (loc.resolved \/ \E c \in loc.issued : c.kind # "clone") =>
            /\ \A c \in pending : c.kind # "clone"
            /\ loc.clonesAwaited = CloneNames

C21_Witness ==
    /\ InPRMode
    /\ pc = "vp_cloneJoin"
    /\ Cardinality({c \in pending : c.kind = "clone"}) = 2
    /\ ClaimedTrunkMainIndex(TrunkComponents) = 2

C21_WitnessAllLinked ==
    /\ InPRMode
    /\ pc = "vp_cloneWait"
    /\ Len(TrunkComponents) >= 1
    /\ \A i \in 1..Len(TrunkComponents) : HasLinkedComponent(TrunkComponents[i])
    /\ \E n \in CloneNames : <<loc.categorySlug, n>> \in tasks

C21_WitnessAfterBarrier ==
    /\ InPRMode
    /\ loc.resolved
    /\ Cardinality(CloneNames) = 2

PastPullFirst ==
    pc \in {"vp_barrier", "vp_wait", "vp_remove", "vp_classify", "vp_untranslated"}
        \/ (pc \in {"vp_comment", "vp_setFailed", "done"} /\ loc.reconciled)

\* C22: in validatePullRequest pullComponentRemoteChanges on the first
\* component is issued if and only if the category existed before the
\* invocation; it is issued once every reconcile createComponent call has
\* completed and before the barrier is invoked; the barrier names the first
\* component and has not resolved while the task started by the pull runs.
C22_PullFirstBeforeBarrier ==
    InPRMode =>
        /\ PastPullFirst => (loc.pulledFirst <=> ~loc.wasRecentlyCreated)
        /\ ~PastPullFirst => ~loc.pulledFirst
        /\ pc = "vp_pullFirst" =>
            /\ loc.reconciled
            /\ pending = {}
            /\ loc.barrier = "none"
            /\ loc.first # EmptyStr
        /\ (loc.pulledFirst /\ loc.barrier \in {"waiting", "resolved"}) =>
            loc.first \in loc.barrierNames
        /\ (loc.pulledFirst /\ loc.barrier = "resolved") =>
            <<loc.categorySlug, loc.first>> \notin tasks

C22_Witness ==
    /\ InPRMode
    /\ pc = "vp_wait"
    /\ loc.pulledFirst
    /\ tasks = {<<loc.categorySlug, loc.first>>}
    /\ Cardinality(ReconcileNames) = 2

C22_WitnessResolved ==
    /\ InPRMode
    /\ loc.pulledFirst
    /\ loc.barrier = "resolved"

C22_WitnessNoPull ==
    /\ InPRMode
    /\ loc.wasRecentlyCreated
    /\ loc.barrier = "resolved"
    /\ loc.first # EmptyStr

\* The previous invocation was a validatePullRequest for the same pull request
\* that created the category and stopped at the trunk lookup.
AfterStoppedBootstrap ==
    /\ InPRMode
    /\ snap.prev.mode = "VALIDATE_PULL_REQUEST"
    /\ snap.prev.target = PRCategoryName(config)

\* C23: the trunk components are cloned into the PR category only by the
\* invocation that created the category. An invocation that finds the category
\* already there (in particular one that follows an invocation which created
\* it and stopped because the trunk category was missing) takes the pull path
\* and issues no clone call.
C23_CloneOnlyWhenCreated ==
    InPRMode =>
        /\ (loc.cloned \/ \E c \in loc.issued \cup pending : c.kind = "clone") =>
            loc.wasRecentlyCreated
        /\ (loc.categorySlug # EmptyStr /\ ~loc.wasRecentlyCreated) =>
            /\ pc # "vp_pull" => loc.pulled
            /\ pc \notin {"vp_findMaster", "vp_clone", "vp_cloneJoin", "vp_cloneWait"}
            /\ ~loc.cloned
            /\ loc.masterCategory = EmptyStr
            /\ loc.clonesAwaited = {}
        /\ (AfterStoppedBootstrap /\ pc # "vp_category") =>
            /\ PRCategoryName(config) \in snap.cats
            /\ ~loc.wasRecentlyCreated

C23_Witness ==
    /\ AfterStoppedBootstrap
    /\ loc.resolved
    /\ ~loc.cloned
    /\ loc.pulled

C23_WitnessTrunkExists ==
    /\ InPRMode
    /\ ~loc.wasRecentlyCreated
    /\ pc = "vp_first"
    /\ comps[loc.categorySlug] = <<>>
    /\ TrunkComponents # <<>>
    /\ loc.componentsInCode # <<>>

\* Discovery has returned the empty list in syncMaster or validatePullRequest.
EmptyDiscovery ==
    (InSyncMode \/ InPRMode) /\ loc.resolved /\ loc.componentsInCode = <<>>

\* An invocation of syncMaster or validatePullRequest is under way and has
\* not run discovery yet, or discovery has returned the empty list.
EmptyWorkTree ==
    /\ pc # "idle"
    /\ InSyncMode \/ InPRMode
    /\ ~loc.resolved \/ loc.componentsInCode = <<>>

\* The invocation's category existed before the invocation.
TargetPreExisted ==
    IF pc \in {"sm_category", "vp_category"}
    THEN (IF InSyncMode THEN config.branchName ELSE PRCategoryName(config)) \in cats
    ELSE ~loc.wasRecentlyCreated

EmptyDiscoveryAborts ==
    EmptyDiscovery =>
        /\ pc \in {"sm_first", "vp_first", "done"}
        /\ pc = "done" => events = <<Event("crash", "firstComponentUndefined")>>
        /\ \A c \in loc.issued \cup pending : c.kind \notin {"first", "rest"}
        /\ loc.first = EmptyStr
        /\ loc.barrier = "none"
        /\ ~loc.removedAny
        /\ ~loc.removed
        /\ ~loc.classified
        /\ ~loc.wasRecentlyCreated =>
            /\ loc.issued = {}
            /\ pending = {}
            /\ loc.clonesAwaited = {}

PreExistingUntouched ==
    (EmptyWorkTree /\ TargetPreExisted) => comps' = comps /\ cats' = cats

\* C24: when discovery returns the empty list, syncMaster and
\* validatePullRequest end with an uncaught error at the creation of the first
\* component: no createComponent call for a discovered group is issued, the
\* barrier and removeMissingComponents that follow are not executed, and a
\* category that existed before the invocation keeps its components through
\* the whole invocation.
C24_EmptyDiscoveryAborts ==
    []EmptyDiscoveryAborts /\ [][PreExistingUntouched]_vars

C24_Witness ==
    /\ InSyncMode
    /\ EmptyDiscovery
    /\ pc = "done"
    /\ Crashed
    /\ ~loc.wasRecentlyCreated
    /\ Len(comps[loc.categorySlug]) = 2

C24_WitnessPR ==
    /\ InPRMode
    /\ EmptyDiscovery
    /\ pc = "done"
    /\ Crashed
    /\ ~loc.wasRecentlyCreated
    /\ comps[loc.categorySlug] # <<>>

C24_WitnessBootstrap ==
    /\ InPRMode
    /\ EmptyDiscovery
    /\ Crashed
    /\ loc.clonesAwaited # {}

\* The PR comments posted so far by the invocation.
CommentIndexes == {i \in 1..Len(events) : events[i].kind = "comment"}

\* C25: a validatePullRequest invocation posts at most one PR comment; once a
\* comment is posted the handler's next call is setFailed with the same
\* message, so a run that ends without being marked failed has posted none;
\* syncMaster and removeBranch post no PR comment.
C25_AtMostOneComment ==
    /\ Cardinality(CommentIndexes) <= 1
    /\ ~InPRMode => CommentIndexes = {}
    /\ \A i \in CommentIndexes :
        IF i = Len(events)
        THEN pc = "vp_setFailed" /\ loc.message = events[i].reason
        ELSE events[i + 1] = Event("setFailed", events[i].reason)
    /\ pc = "vp_setFailed" => CommentIndexes = {Len(events)}
    /\ (pc = "done" /\ ~Failed) => CommentIndexes = {}

C25_Witness ==
    /\ InPRMode
    /\ pc = "done"
    /\ loc.errs = [mergeFailureError |-> TRUE, needsCommitError |-> TRUE,
                   needsPushError |-> TRUE]
    /\ Cardinality(CommentIndexes) = 1

C25_WitnessPosted ==
    /\ pc = "vp_setFailed"
    /\ loc.untranslated
    /\ events = <<Event("comment", "untranslatedComponents")>>

C25_WitnessRejected ==
    /\ InPRMode
    /\ pc = "done"
    /\ loc.classified
    /\ events = <<Event("crash", "createCommentRejected")>>

C25_WitnessSuccess ==
    /\ InPRMode
    /\ pc = "done"
    /\ loc.untranslatedChecked
    /\ ~Failed
    /\ ~Crashed
    /\ CommentIndexes = {}

C25_WitnessSyncFailed ==
    /\ InSyncMode
    /\ pc = "done"
    /\ Failed
    /\ loc.classified
    /\ CommentIndexes = {}

====
